---- MODULE Spec2Model ----
(***************************************************************************)
(* A model of xslt.c: the stylesheet compiler (make_style), the transform  *)
(* applier (apply_style), the program release (free_style), the facade     *)
(* (xslt), the engine bootstrap (init_exslt) and the parameter table       *)
(* (make_param_array, set_param, free_param_array), together with the      *)
(* parts of libxml2 / libxslt they call into.                              *)
(*                                                                         *)
(* The engine is a black box for xslt.c.  What it does on a given source   *)
(* text is an attribute of that text (the records of XslInputs and         *)
(* XmlInputs), so the same text always behaves the same way, and every     *)
(* combination of outcomes the library can produce is enumerated.          *)
(*                                                                         *)
(* Every allocation is an entry of `heap`, with the number of times it was *)
(* released; `trace` is the sequence of engine calls and returns of the    *)
(* latest top-level call.                                                  *)
(***************************************************************************)
EXTENDS Integers, Sequences, FiniteSets, TLC

VARIABLES heap, lastError, trace, last, styles, calls, crashed, bigEndian,
          boot, ptable, pstrings, plast

tvars ==
  <<heap, lastError, trace, last, styles, calls, crashed, bigEndian, boot>>

pvars == <<ptable, pstrings, plast>>

vars == <<tvars, pvars>>

(* Bounds of the model. *)
MaxCalls == 3
MaxOutLen == 2
MaxTuples == 2
MaxSets == 3

(* Program constants. *)
INT32_MAX == 2147483647
NULL == 0

(***************************************************************************)
(* size_t.  A 64-bit unsigned value is kept as three fields so that every  *)
(* number stays within 32-bit integers:                             *)
(*     value = hi * 2^32 + b31 * 2^31 + lo31,   0 <= lo31 < 2^31.          *)
(***************************************************************************)
SizeT(hi, b31, lo31) == [hi |-> hi, b31 |-> b31, lo31 |-> lo31]

SizeZero == SizeT(0, 0, 0)

\* len > INT32_MAX
GtInt32MaxOrEqual(len) == len.hi > 0 \/ len.b31 = 1 \/ len.lo31 = INT32_MAX

GtInt32Max(len) == len.hi > 0 \/ len.b31 = 1

\* (int)len : the low 32 bits, read as a signed number
ToInt(len) == IF len.b31 = 1 THEN (len.lo31 - INT32_MAX) - 1 ELSE len.lo31

\* *xml_txt_len > 0
Positive(n) == n.hi > 0 \/ n.b31 = 1 \/ n.lo31 > 0

\* A store of the non-negative int v through an int pointer that aliases the
\* size_t n: it overwrites four of the eight bytes, the low half on a
\* little-endian build and the high half on a big-endian one.
StoreInt(n, v, be) ==
  IF be THEN SizeT(v, n.b31, n.lo31) ELSE SizeT(n.hi, 0, v)

(***************************************************************************)
(* The machine state threaded through the C functions.                     *)
(***************************************************************************)
Machine(h, e, t, u) == [heap |-> h, lastError |-> e, trace |-> t, ub |-> u]

Obj(kind, doc, errors, size, bytes) ==
  [kind |-> kind, frees |-> 0, doc |-> doc, errors |-> errors,
   size |-> size, bytes |-> bytes]

Event(m, op, a, b) ==
  [m EXCEPT !.trace = Append(@, [op |-> op, a |-> a, b |-> b])]

Alloc(m, o) == [m EXCEPT !.heap = Append(@, o)]

NewId(m) == Len(m.heap) + 1

Release(m, id) ==
  IF id = NULL THEN m ELSE [m EXCEPT !.heap[id].frees = @ + 1]

(***************************************************************************)
(* Source texts.  A text is its byte length and what the engine does with  *)
(* it.  parse: "ok" a tree and no error; "warn" a tree and an error raised *)
(* (a namespace error, say); "bad" no tree and an error raised; "null" no  *)
(* tree and no error raised.  raises: the compile or transform step raises *)
(* an error through the parser library's error channel (an XPath error, a  *)
(* document that an import or document() call cannot parse).               *)
(***************************************************************************)
SmallLen == SizeT(0, 0, 4)

LimitLen == SizeT(0, 0, INT32_MAX)

OverLen == SizeT(0, 1, 0)

Lens == {SmallLen, LimitLen, OverLen}

ParseOutcomes == {"ok", "warn", "bad", "null"}

Bytes == {0, 1}

RECURSIVE SeqsUpTo(_)
SeqsUpTo(n) ==
  IF n = 0 THEN {<<>>}
  ELSE LET shorter == SeqsUpTo(n - 1)
       IN shorter \cup {Append(s, b) : s \in {t \in shorter : Len(t) = n - 1}, b \in Bytes}

Outputs == SeqsUpTo(MaxOutLen)

\* Attributes that no step reads are held at a default, so that one text is
\* not enumerated many times over.
XslInputs ==
  {x \in [len : Lens, parse : ParseOutcomes,
          compile : {"ok", "errors", "null"}, raises : BOOLEAN] :
     /\ (x.len = OverLen => x.parse = "null")
     /\ (x.len = LimitLen /\ x.parse = "ok" => x.compile = "ok" /\ ~x.raises)
     /\ (x.parse # "ok" => x.compile = "null" /\ ~x.raises)}

XmlInputs ==
  {x \in [len : Lens, parse : ParseOutcomes, transform : {"result", "null"},
          raises : BOOLEAN, ser : {0, -1}, out : Outputs, serAlloc : BOOLEAN] :
     /\ (x.len = OverLen => x.parse = "null")
     /\ (x.parse # "ok" => x.transform = "null" /\ ~x.raises)
     /\ (x.len = LimitLen => x.transform = "null" /\ ~x.raises)
     /\ (x.transform = "null" => x.ser = -1)
     /\ (x.ser = -1 => x.out = <<>> /\ ~x.serAlloc)
     /\ (x.out # <<>> => x.serAlloc)}

(***************************************************************************)
(* libxml2.                                                                *)
(***************************************************************************)
\* xmlParseMemory(buffer, size): the tree, or NULL; an error it raises goes
\* into the process-wide last-error slot, which a parse never clears.
xmlParseMemory(m, src, size) ==
  LET m1 == Event(m, "xmlParseMemory", size, 0)
      m2 == IF src.parse \in {"warn", "bad"}
            THEN [m1 EXCEPT !.lastError = TRUE] ELSE m1
  IN IF src.parse \in {"ok", "warn"}
     THEN [m |-> Alloc(m2, Obj("doc", NULL, 0, SizeZero, <<>>)), doc |-> NewId(m2)]
     ELSE [m |-> m2, doc |-> NULL]

xmlGetLastError(m) == m.lastError

xmlResetLastError(m) == [m EXCEPT !.lastError = FALSE]

xmlFreeDoc(m, doc) == Event(Release(m, doc), "xmlFreeDoc", doc, 0)

xmlFree(m, p) == Event(Release(m, p), "xmlFree", p, 0)

(***************************************************************************)
(* libxslt.                                                                *)
(***************************************************************************)
\* xsltParseStylesheetDoc(doc): a stylesheet that owns doc, or NULL (doc is
\* then still the caller's).
xsltParseStylesheetDoc(m, doc, xsl) ==
  LET m1 == Event(m, "xsltParseStylesheetDoc", doc, 0)
      m2 == IF xsl.raises THEN [m1 EXCEPT !.lastError = TRUE] ELSE m1
      err == IF xsl.compile = "errors" THEN 1 ELSE 0
  IN IF xsl.compile = "null"
     THEN [m |-> m2, style |-> NULL]
     ELSE [m |-> Alloc(m2, Obj("style", doc, err, SizeZero, <<>>)), style |-> NewId(m2)]

\* xsltFreeStylesheet(style): frees the stylesheet and the document it owns.
xsltFreeStylesheet(m, style) ==
  LET m1 == Event(m, "xsltFreeStylesheet", style, 0)
  IN IF style = NULL THEN m1
     ELSE Release(Release(m1, m1.heap[style].doc), style)

\* xsltApplyStylesheet(style, doc, params): the result tree, or NULL.
xsltApplyStylesheet(m, style, doc, req) ==
  LET m1 == Event(m, "xsltApplyStylesheet", style, doc)
      m2 == IF req.raises THEN [m1 EXCEPT !.lastError = TRUE] ELSE m1
  IN IF req.transform = "null"
     THEN [m |-> m2, result |-> NULL]
     ELSE [m |-> Alloc(m2, Obj("doc", NULL, 0, SizeZero, <<>>)), result |-> NewId(m2)]

\* xsltSaveResultToString(&out, &len, result, style): sets out = NULL and
\* len = 0 first; on success with output, out is a fresh NUL-terminated copy
\* of the serialized bytes and len their number.  len is written as an int.
xsltSaveResultToString(m, lenVar, result, style, req, be) ==
  LET m1 == Event(m, "xsltSaveResultToString", style, result)
      n == IF req.ser = 0 THEN Len(req.out) ELSE 0
      m2 == IF req.ser = 0 /\ req.serAlloc
            THEN Alloc(m1, Obj("xmlbuf", NULL, 0, SizeT(0, 0, n), req.out))
            ELSE m1
  IN [m |-> Event(m2, "serialized", req.ser, n),
      ok |-> req.ser,
      xml_output |-> IF req.ser = 0 /\ req.serAlloc THEN NewId(m1) ELSE NULL,
      len |-> StoreInt(lenVar, n, be)]

(***************************************************************************)
(* libc.                                                                   *)
(***************************************************************************)
\* strncpy(dst, src, n) for a NUL-terminated src: the bytes of src before
\* its first zero byte, then zero bytes up to n.
StrNCpy(src, n) ==
  LET str == Append(src, 0)
      nul == CHOOSE i \in 1..Len(str) : str[i] = 0 /\ \A j \in 1..(i - 1) : str[j] # 0
  IN [i \in 1..n |-> IF i < nul THEN str[i] ELSE 0]

\* The bytes of a buffer the model keeps: all n of them when n is small, and
\* otherwise (n of 2^31 and more) the first Len(src) + 1, the rest being the
\* zero padding.
Kept(src, n) ==
  IF n.hi = 0 /\ n.b31 = 0 THEN n.lo31 ELSE Len(src) + 1

(***************************************************************************)
(* xslt.c                                                                  *)
(***************************************************************************)
\* ok == 0 && *xml_txt_len > 0
SaveCondAnyStatus(ok, len) == Positive(len)

SaveCond(ok, len) == ok = 0 /\ Positive(len)

\* *xml_txt = malloc(*xml_txt_len); strncpy(*xml_txt, xml_output,
\* *xml_txt_len); xmlFree(xml_output);  strncpy from NULL is undefined.
CopyOut(m, xml_output, len) ==
  LET src == IF xml_output = NULL THEN <<>> ELSE m.heap[xml_output].bytes
      m1 == Alloc(m, Obj("cbuf", NULL, 0, len, StrNCpy(src, Kept(src, len))))
      m2 == IF xml_output = NULL THEN [m1 EXCEPT !.ub = TRUE] ELSE m1
  IN [m |-> xmlFree(m2, xml_output), txt |-> NewId(m)]

ApplyRet(m, ret, txt, len) ==
  [m |-> Event(m, "return apply_style", ret, 0), ret |-> ret, txt |-> txt, len |-> len]

apply_styleReleasesStyle(m, style, req, xml_txt, xml_txt_len, be) ==
  LET len == req.len
  IN IF GtInt32Max(len) THEN ApplyRet(m, -1, xml_txt, xml_txt_len)
     ELSE
     LET p == xmlParseMemory(m, req, ToInt(req.len))
     IN IF p.doc = NULL \/ xmlGetLastError(p.m)
        THEN ApplyRet(xmlResetLastError(p.m), -1, xml_txt, xml_txt_len)
        ELSE
        LET t == xsltApplyStylesheet(p.m, style, p.doc, req)
        IN IF t.result = NULL
           THEN ApplyRet(xsltFreeStylesheet(xmlFreeDoc(t.m, p.doc), style),
                         -1, xml_txt, xml_txt_len)
           ELSE
           LET s == xsltSaveResultToString(t.m, xml_txt_len, t.result, style, req, be)
               c == IF SaveCond(s.ok, s.len)
                    THEN CopyOut(s.m, s.xml_output, s.len)
                    ELSE [m |-> s.m, txt |-> xml_txt]
           IN ApplyRet(xmlFreeDoc(xmlFreeDoc(c.m, p.doc), t.result),
                       s.ok, c.txt, s.len)

apply_style(m, style, req, xml_txt, xml_txt_len, be) ==
  LET len == req.len
  IN IF GtInt32Max(len) THEN ApplyRet(m, -1, xml_txt, xml_txt_len)
     ELSE
     LET p == xmlParseMemory(m, req, ToInt(req.len))
     IN IF p.doc = NULL \/ xmlGetLastError(p.m)
        THEN ApplyRet(xmlResetLastError(p.m), -1, xml_txt, xml_txt_len)
        ELSE
        LET t == xsltApplyStylesheet(p.m, style, p.doc, req)
        IN IF t.result = NULL
           THEN ApplyRet(xmlFreeDoc(t.m, p.doc), -1, xml_txt, xml_txt_len)
           ELSE
           LET s == xsltSaveResultToString(t.m, xml_txt_len, t.result, style, req, be)
               c == IF SaveCond(s.ok, s.len)
                    THEN CopyOut(s.m, s.xml_output, s.len)
                    ELSE [m |-> s.m, txt |-> xml_txt]
           IN ApplyRet(xmlFreeDoc(xmlFreeDoc(c.m, p.doc), t.result),
                       s.ok, c.txt, s.len)

free_style(m, style) == xsltFreeStylesheet(m, style)

MakeRet(m, ret, style) ==
  [m |-> Event(m, "return make_style", ret, 0), ret |-> ret, style |-> style]

make_style(m, xsl, style) ==
  LET len == xsl.len
  IN IF GtInt32Max(len) THEN MakeRet(m, -1, style)
     ELSE
     LET p == xmlParseMemory(m, xsl, ToInt(len))
     IN IF p.doc = NULL \/ xmlGetLastError(p.m)
        THEN MakeRet(xmlResetLastError(p.m), -1, style)
        ELSE
        LET c == xsltParseStylesheetDoc(p.m, p.doc, xsl)
        IN IF c.style = NULL \/ c.m.heap[c.style].errors # 0
           THEN MakeRet(xmlFreeDoc(c.m, p.doc), -1, c.style)
           ELSE MakeRet(c.m, 0, c.style)

XsltRet(m, ret, txt, len) ==
  [m |-> Event(m, "return xslt", ret, 0), ret |-> ret, txt |-> txt, len |-> len]

xsltKeepsStyleOnFailure(m, xsl, req, xml_txt, xml_txt_len, be) ==
  LET mk == make_style(m, xsl, NULL)
  IN IF mk.ret < 0 THEN XsltRet(mk.m, -1, xml_txt, xml_txt_len)
     ELSE LET ap == apply_style(mk.m, mk.style, req, xml_txt, xml_txt_len, be)
          IN XsltRet(IF ap.ret = 0 THEN free_style(ap.m, mk.style) ELSE ap.m,
                     ap.ret, ap.txt, ap.len)

xsltAppliesAnyway(m, xsl, req, xml_txt, xml_txt_len, be) ==
  LET mk == make_style(m, xsl, NULL)
      ap == apply_style(mk.m, mk.style, req, xml_txt, xml_txt_len, be)
  IN XsltRet(free_style(ap.m, mk.style), ap.ret, ap.txt, ap.len)

xslt(m, xsl, req, xml_txt, xml_txt_len, be) ==
  LET mk == make_style(m, xsl, NULL)
  IN IF mk.ret < 0 THEN XsltRet(mk.m, -1, xml_txt, xml_txt_len)
     ELSE LET ap == apply_style(mk.m, mk.style, req, xml_txt, xml_txt_len, be)
          IN XsltRet(free_style(ap.m, mk.style), ap.ret, ap.txt, ap.len)

\* init_exslt: the four steps, in order, on the engine's bootstrap state.
\* Each is idempotent in the engine.
LIBXML_TEST_VERSION(st) ==
  [m |-> Event(st.m, "LIBXML_TEST_VERSION", 0, 0),
   boot |-> [st.boot EXCEPT !.version = TRUE]]

xmlInitParser(st) ==
  [m |-> Event(st.m, "xmlInitParser", 0, 0),
   boot |-> [st.boot EXCEPT !.parser = TRUE]]

xsltInit(st) ==
  [m |-> Event(st.m, "xsltInit", 0, 0),
   boot |-> [st.boot EXCEPT !.xslt = TRUE]]

exsltRegisterAll(st) ==
  [m |-> Event(st.m, "exsltRegisterAll", 0, 0),
   boot |-> [st.boot EXCEPT !.exslt = TRUE]]

init_exsltNoRegister(st) ==
  xsltInit(xmlInitParser(LIBXML_TEST_VERSION(st)))

init_exslt(st) ==
  exsltRegisterAll(xsltInit(xmlInitParser(LIBXML_TEST_VERSION(st))))

(***************************************************************************)
(* The caller.  It holds the programs that make_style returned with        *)
(* success and has not released yet, applies and releases only those, and  *)
(* passes the address of an output pointer and of a length variable whose  *)
(* contents before the call are its own business.                          *)
(***************************************************************************)
CallerPtrs == {NULL}

CallerLens == {SizeZero, SizeT(1, 0, 3)}

NoInput == [len |-> SizeZero, parse |-> "null"]

Last(op, base, ret, style, xsl, req, txt0, txt, len0, len) ==
  [op |-> op, base |-> base, ret |-> ret, style |-> style,
   xslLen |-> xsl.len, xslParse |-> xsl.parse,
   xmlLen |-> req.len, xmlParse |-> req.parse,
   txt0 |-> txt0, txt |-> txt, len0 |-> len0, len |-> len,
   first |-> [ret |-> 0, txt |-> NULL, len |-> SizeZero]]

Start == Machine(heap, lastError, <<>>, FALSE)

NoLast ==
  Last("none", 0, 0, NULL, NoInput, NoInput, NULL, NULL, SizeZero, SizeZero)

\* What a call leaves behind, l being the record of the call.  A call that
\* ran into undefined behaviour either went on as modelled or ended the
\* process, and then it never returned.
Leaves(m, l) ==
  /\ heap' = m.heap
  /\ lastError' = m.lastError
  /\ trace' = m.trace
  /\ calls' = calls + 1
  /\ crashed' \in (IF m.ub THEN BOOLEAN ELSE {FALSE})
  /\ last' = IF crashed' THEN [l EXCEPT !.op = "crashed"] ELSE l
  /\ UNCHANGED <<bigEndian, boot, pvars>>

Idle == ~crashed /\ last.op = "none" /\ calls < MaxCalls

(***************************************************************************)
(* The parameter table.  A table is the array a[0 .. 2 * num_tuples] of    *)
(* string pointers; a string is an entry of pstrings, made by the caller.  *)
(***************************************************************************)
NoTable == [alloc |-> FALSE, num |-> 0, a |-> <<>>, frees |-> 0]

NoParamOp ==
  [op |-> "none", t |-> 0, n |-> NULL, v |-> NULL, old |-> <<>>,
   pairs |-> <<>>]

\* a = calloc(sizeof(char *), 2 * num_tuples + 1); a[2 * num_tuples] = NULL
make_param_array(num_tuples) ==
  LET a == [i \in 0..(2 * num_tuples) |-> NULL]
  IN [a EXCEPT ![2 * num_tuples] = NULL]

\* a[2 * t] = n; a[2 * t + 1] = v
set_paramShifted(a, n, v, t) ==
  [a EXCEPT ![2 * t + 1] = n, ![2 * t + 2] = v]

set_param(a, n, v, t) ==
  [a EXCEPT ![2 * t] = n, ![2 * t + 1] = v]

\* free(p)
Free(strs, p) ==
  IF p = NULL THEN strs ELSE [strs EXCEPT ![p].frees = @ + 1]

\* for (i = 0; i < 2 * num_tuples; i++) free(a[i]);
RECURSIVE FreeSlots(_, _, _, _)
FreeSlots(strs, a, i, num_tuples) ==
  IF i < 2 * num_tuples
  THEN FreeSlots(Free(strs, a[i]), a, i + 1, num_tuples)
  ELSE strs

\* free_param_array(a, num_tuples): the strings as it leaves them; the
\* table itself is freed after the loop.
free_param_array(strs, a, num_tuples) == FreeSlots(strs, a, 0, num_tuples)

Texts == {"a", "b"}

Init ==
  /\ boot = [called |-> FALSE, version |-> FALSE, parser |-> FALSE,
             xslt |-> FALSE, exslt |-> FALSE]
  /\ ptable = NoTable
  /\ pstrings = <<>>
  /\ plast = NoParamOp
  /\ heap = <<>>
  /\ lastError = FALSE
  /\ trace = <<>>
  /\ last = NoLast
  /\ styles = {}
  /\ calls = 0
  /\ crashed = FALSE
  /\ bigEndian \in BOOLEAN

\* Nothing in xslt.c makes the caller run init_exslt first: it may come at
\* any point between two calls, or never.
InitExslt ==
  /\ Idle
  /\ LET r == init_exslt([m |-> Start, boot |-> boot])
     IN /\ boot' = [r.boot EXCEPT !.called = TRUE]
        /\ trace' = r.m.trace
        /\ last' = Last("init_exslt", Len(heap), 0, NULL, NoInput, NoInput,
                        NULL, NULL, SizeZero, SizeZero)
  /\ calls' = calls + 1
  /\ UNCHANGED <<heap, lastError, styles, crashed, bigEndian, pvars>>

MakeStyle ==
  /\ Idle
  /\ \E xsl \in XslInputs :
       LET r == make_style(Start, xsl, NULL)
       IN /\ Leaves(r.m, Last("make_style", Len(heap), r.ret, r.style, xsl, NoInput,
                               NULL, NULL, SizeZero, SizeZero))
          /\ styles' = IF r.ret = 0 THEN styles \cup {r.style} ELSE styles

ApplyStyle ==
  /\ Idle
  /\ \E style \in styles, req \in XmlInputs, txt0 \in CallerPtrs, len0 \in CallerLens :
       LET r == apply_style(Start, style, req, txt0, len0, bigEndian)
       IN /\ Leaves(r.m, Last("apply_style", Len(heap), r.ret, style, NoInput, req,
                               txt0, r.txt, len0, r.len))
          /\ UNCHANGED styles

FreeStyle ==
  /\ Idle
  /\ \E style \in styles :
       /\ Leaves(free_style(Start, style),
                 Last("free_style", Len(heap), 0, style, NoInput, NoInput,
                      NULL, NULL, SizeZero, SizeZero))
       /\ styles' = styles \ {style}

Xslt ==
  /\ Idle
  /\ \E xsl \in XslInputs, req \in XmlInputs, txt0 \in CallerPtrs, len0 \in CallerLens :
       LET r == xslt(Start, xsl, req, txt0, len0, bigEndian)
       IN /\ Leaves(r.m, Last("xslt", Len(heap), r.ret, NULL, xsl, req,
                               txt0, r.txt, len0, r.len))
          /\ UNCHANGED styles

\* The caller applies one program to one XML text and one parameter table
\* twice in succession, with its output variables set the same way before
\* each call, and frees the first output once it has the second.
ApplyTwice ==
  /\ Idle
  /\ \E style \in styles, req \in XmlInputs, txt0 \in CallerPtrs, len0 \in CallerLens :
       LET r1 == apply_style(Start, style, req, txt0, len0, bigEndian)
           r2 == apply_style(r1.m, style, req, txt0, len0, bigEndian)
           m == IF r1.ret = 0 /\ r1.txt # txt0 THEN Release(r2.m, r1.txt) ELSE r2.m
       IN /\ Leaves(m, [Last("apply_twice", Len(heap), r2.ret, style, NoInput, req,
                              txt0, r2.txt, len0, r2.len)
                           EXCEPT !.first = [ret |-> r1.ret, txt |-> r1.txt,
                                             len |-> r1.len]])
          /\ UNCHANGED styles

\* The caller goes on after a call: it is done with the output buffer it was
\* handed and frees it.  Memory that has been released drops out of the heap
\* here (the allocator may hand it out again), and the record of the call is
\* put away.
Alive(h, i) == h[i].frees = 0

Moved(h, i) ==
  IF i = NULL \/ i > Len(h) THEN NULL
  ELSE IF ~Alive(h, i) THEN NULL
  ELSE Cardinality({j \in 1..i : Alive(h, j)})

Sweep(h) ==
  LET n == Cardinality({j \in 1..Len(h) : Alive(h, j)})
  IN [k \in 1..n |->
        LET i == CHOOSE j \in 1..Len(h) : Alive(h, j) /\ Moved(h, j) = k
        IN [h[i] EXCEPT !.doc = Moved(h, @)]]

Resume ==
  /\ ~crashed /\ last.op # "none"
  /\ LET got == last.op \in {"apply_style", "apply_twice", "xslt"} /\ last.ret = 0
                  /\ last.txt # last.txt0
         h == IF got THEN [heap EXCEPT ![last.txt].frees = @ + 1] ELSE heap
     IN /\ heap' = Sweep(h)
        /\ styles' = {Moved(h, s) : s \in styles}
  /\ trace' = <<>>
  /\ last' = NoLast
  /\ UNCHANGED <<lastError, calls, crashed, bigEndian, boot, pvars>>

(***************************************************************************)
(* The caller of the parameter table: it allocates a table for a tuple     *)
(* count it remembers, sets pairs at indices below that count, each time   *)
(* with two strings it has just allocated, and releases the table once,    *)
(* with the same tuple count.                                              *)
(***************************************************************************)
MakeParamArray ==
  /\ ~ptable.alloc
  /\ \E num \in 0..MaxTuples :
       /\ ptable' = [alloc |-> TRUE, num |-> num, a |-> make_param_array(num),
                     frees |-> 0]
       /\ plast' = [NoParamOp EXCEPT !.op = "make_param_array"]
  /\ UNCHANGED <<pstrings, tvars>>

SetParam ==
  /\ ptable.alloc /\ ptable.frees = 0
  /\ Len(pstrings) < 2 * MaxSets
  /\ \E t \in 0..(ptable.num - 1), name \in Texts, value \in Texts :
       LET n == Len(pstrings) + 1
           v == Len(pstrings) + 2
       IN /\ pstrings' = pstrings \o <<[text |-> name, frees |-> 0],
                                        [text |-> value, frees |-> 0]>>
          /\ ptable' = [ptable EXCEPT !.a = set_param(@, n, v, t)]
          /\ plast' = [op |-> "set_param", t |-> t, n |-> n, v |-> v,
                       old |-> ptable.a,
                       pairs |-> [i \in (DOMAIN plast.pairs) \cup {t} |->
                                    IF i = t THEN <<name, value>>
                                    ELSE plast.pairs[i]]]
  /\ UNCHANGED tvars

FreeParamArray ==
  /\ ptable.alloc /\ ptable.frees = 0
  /\ pstrings' = free_param_array(pstrings, ptable.a, ptable.num)
  /\ ptable' = [ptable EXCEPT !.frees = @ + 1]
  /\ plast' = [plast EXCEPT !.op = "free_param_array"]
  /\ UNCHANGED tvars

ParamNext == MakeParamArray \/ SetParam \/ FreeParamArray

ParamSpec == Init /\ [][ParamNext]_vars

Next == InitExslt \/ MakeStyle \/ ApplyStyle \/ ApplyTwice \/ FreeStyle \/ Xslt \/ Resume

Spec == Init /\ [][Next]_vars

TypeOK ==
  /\ lastError \in BOOLEAN
  /\ calls \in 0..MaxCalls
  /\ \A s \in styles : s \in 1..Len(heap) /\ heap[s].kind = "style"

(***************************************************************************)
(* Properties.  They read the record of the latest call: the objects it    *)
(* allocated (Created), the engine calls it made (trace) and what it       *)
(* returned (last).                                                        *)
(***************************************************************************)
Created == (last.base + 1)..Len(heap)

CreatedOf(kind) == {i \in Created : heap[i].kind = kind}

At(op) == {i \in DOMAIN trace : trace[i].op = op}

Returned(op, rets) == \E i \in At(op) : trace[i].a \in rets

\* C1: when apply_style returns, on any path, every document tree created
\* during the call (the input tree and the result tree) has been destroyed
\* exactly once.
C1_ApplyDestroysTrees ==
  last.op = "apply_style" => \A d \in CreatedOf("doc") : heap[d].frees = 1

\* C2: when make_style returns failure, no document tree allocated during
\* the call is still alive and none has been freed more than once.
C2_FailedCompileLeaksNoTree ==
  (last.op = "make_style" /\ last.ret # 0)
     => \A d \in CreatedOf("doc") : heap[d].frees = 1

\* C3: when compilation produces a program whose error count is non-zero,
\* make_style (alone or inside xslt) returns failure and that program has
\* been released exactly once.
C3_ErrorProgramReleased ==
  last.op \in {"make_style", "xslt"}
     => \A s \in CreatedOf("style") :
          heap[s].errors # 0 => last.ret # 0 /\ heap[s].frees = 1

\* C4: a stylesheet tree owned by a live Program is alive, and no
\* xmlFreeDoc is ever called directly on a tree that a Program owns.
C4_OwnedTreeLivesWithProgram ==
  \A s \in 1..Len(heap) :
     (heap[s].kind = "style" /\ heap[s].doc # NULL)
        => /\ heap[s].frees = 0 => heap[heap[s].doc].frees = 0
           /\ \A i \in At("xmlFreeDoc") : trace[i].a # heap[s].doc

\* C5: in xslt, when make_style succeeded, the Program is released exactly
\* once, after apply_style has returned and before xslt returns, whatever
\* apply_style returned; nothing uses the Program after the release; and
\* xslt returns what apply_style returned.
C5_FacadeReleasesProgramOnce ==
  (last.op = "xslt" /\ Returned("return make_style", {0}))
     => \E s \in CreatedOf("style"), r \in At("return apply_style"),
           f \in At("xsltFreeStylesheet"), x \in At("return xslt") :
          /\ CreatedOf("style") = {s}
          /\ At("xsltFreeStylesheet") = {f} /\ trace[f].a = s
          /\ heap[s].frees = 1
          /\ At("return apply_style") = {r}
          /\ r < f /\ f < x /\ x = Len(trace)
          /\ \A j \in DOMAIN trace :
               (trace[j].a = s /\ trace[j].op \in {"xsltApplyStylesheet",
                                                   "xsltSaveResultToString"})
                  => j < r
          /\ last.ret = trace[r].a

C5_Witness ==
  /\ last.op = "xslt"
  /\ Returned("return make_style", {0})
  /\ Returned("return apply_style", {-1})
  /\ At("xsltFreeStylesheet") # {}

\* C6: in xslt, when make_style failed, apply_style is not invoked, no XML
\* input is parsed, no Program is released, and xslt returns failure.
C6_FacadeStopsOnCompileFailure ==
  (last.op = "xslt" /\ Returned("return make_style", {-1}))
     => /\ last.ret = -1
        /\ At("return apply_style") = {}
        /\ At("xsltApplyStylesheet") = {}
        /\ At("xsltFreeStylesheet") = {}
        /\ \A i \in At("xmlParseMemory"), j \in At("return make_style") : i < j
        /\ last.txt = last.txt0

C6_Witness ==
  /\ last.op = "xslt"
  /\ Returned("return make_style", {-1})
  /\ At("xmlParseMemory") # {}
  /\ last.xmlParse = "ok"

\* C7: at the return of every make_style and apply_style call the
\* process-wide pending parser error is clear.
C7_ErrorSlotClearAtReturn ==
  last.op \in {"make_style", "apply_style"} => ~lastError

\* C8: make_style and apply_style reject a source one byte longer than
\* INT32_MAX before any parse and with nothing allocated, and hand a source
\* of exactly INT32_MAX bytes to the parser with its full length.
C8_LengthLimit ==
  last.op \in {"make_style", "apply_style"}
     => LET len == IF last.op = "make_style" THEN last.xslLen ELSE last.xmlLen
        IN /\ len = OverLen
                => /\ last.ret = -1
                   /\ At("xmlParseMemory") = {}
                   /\ Created = {}
           /\ len = LimitLen
                => \E i \in At("xmlParseMemory") : trace[i].a = INT32_MAX

C8_Witness ==
  /\ last.op = "apply_style"
  /\ last.xmlLen = LimitLen
  /\ last.xmlParse = "ok"
  /\ At("xsltApplyStylesheet") # {}

\* C9: when apply_style returns failure no output buffer has been
\* allocated for the caller and the caller's output pointer is unchanged;
\* and it returns failure whenever serialization reports a non-zero status.
C9_FailureGivesNoBuffer ==
  last.op = "apply_style"
     => /\ last.ret # 0 => CreatedOf("cbuf") = {} /\ last.txt = last.txt0
        /\ \A i \in At("serialized") : trace[i].a # 0 => last.ret # 0

C9_Witness ==
  /\ last.op = "apply_style"
  /\ \E i \in At("serialized") : trace[i].a # 0
  /\ Positive(last.len)

\* C10: when serialization succeeds and reports an output length of zero,
\* apply_style returns success, allocates no output buffer, leaves the
\* caller's output pointer unchanged and destroys both trees.
C10_EmptyOutputGivesNoBuffer ==
  (last.op = "apply_style"
     /\ \E i \in At("serialized") : trace[i].a = 0 /\ trace[i].b = 0)
     => /\ last.ret = 0
        /\ CreatedOf("cbuf") = {}
        /\ last.txt = last.txt0
        /\ \A d \in CreatedOf("doc") : heap[d].frees = 1

\* The bytes behind an output pointer: none when the pointer is still the
\* caller's own.
OutBytes(p) == IF p = last.txt0 THEN <<>> ELSE heap[p].bytes

\* C11: applying the same Program to the same XML input and parameter table
\* twice in succession gives the same result both times and, on success,
\* the same output bytes and length.
C11_ApplyTwiceSameOutcome ==
  last.op = "apply_twice"
     => /\ last.first.ret = last.ret
        /\ last.ret = 0 => /\ last.first.len = last.len
                           /\ OutBytes(last.first.txt) = OutBytes(last.txt)

\* C12: apply_style leaves the Program as it found it: on every return
\* path the Program passed in is the same live object, still owning the
\* same live stylesheet tree, and the caller still holds it.
C12_ApplyLeavesProgram ==
  [][last'.op \in {"apply_style", "apply_twice"}
       => LET s == last'.style
          IN /\ styles' = styles /\ s \in styles
             /\ heap[s].kind = "style" /\ heap[s].frees = 0
             /\ heap'[s] = heap[s]
             /\ heap[heap[s].doc].kind = "doc" /\ heap[heap[s].doc].frees = 0
             /\ heap'[heap[s].doc] = heap[heap[s].doc]]_vars

C12_Witness ==
  /\ last.op = "apply_style"
  /\ last.ret = -1
  /\ At("xsltApplyStylesheet") # {}
  /\ heap[last.style].frees = 0

\* C13: free_param_array, called once on a table after any sequence of
\* set_param calls with indices in range, frees the table exactly once and
\* every name and value string handed to a set_param call exactly once.
C13_ReleaseFreesEveryString ==
  plast.op = "free_param_array"
     => /\ ptable.frees = 1
        /\ \A k \in DOMAIN pstrings : pstrings[k].frees = 1

\* C14: make_param_array(num) gives 2 * num + 1 empty slots, the last one
\* the sentinel; set_param at index t writes slots 2t and 2t + 1 only; and
\* once every index has been set the first empty slot is slot 2 * num and
\* the table holds the num pairs in index order.
C14_TableShape ==
  LET a == ptable.a
      num == ptable.num
  IN /\ plast.op = "make_param_array"
          => DOMAIN a = 0..(2 * num) /\ \A i \in DOMAIN a : a[i] = NULL
     /\ plast.op = "set_param"
          => /\ DOMAIN a = 0..(2 * num)
             /\ a[2 * plast.t] = plast.n /\ a[2 * plast.t + 1] = plast.v
             /\ \A i \in DOMAIN a \ {2 * plast.t, 2 * plast.t + 1} :
                  a[i] = plast.old[i]
             /\ a[2 * num] = NULL
     /\ (plast.op = "set_param" /\ DOMAIN plast.pairs = 0..(num - 1))
          => /\ \A i \in 0..(2 * num - 1) : a[i] # NULL
             /\ a[2 * num] = NULL
             /\ \A t \in 0..(num - 1) :
                  <<pstrings[a[2 * t]].text, pstrings[a[2 * t + 1]].text>>
                     = plast.pairs[t]

C14_Witness ==
  /\ plast.op = "set_param"
  /\ ptable.num = MaxTuples
  /\ DOMAIN plast.pairs = 0..(ptable.num - 1)
  /\ Len(pstrings) > 2 * ptable.num

Booted == boot.version /\ boot.parser /\ boot.xslt /\ boot.exslt

EngineCalls ==
  At("xmlParseMemory") \cup At("xsltParseStylesheetDoc")
     \cup At("xsltApplyStylesheet") \cup At("xsltSaveResultToString")

\* C15: no make_style, apply_style or xslt call reaches the parsing or
\* transform engine before init_exslt has completed its four steps.
C15_NoCallBeforeBootstrap ==
  (last.op \in {"make_style", "apply_style", "apply_twice", "xslt"}
     /\ EngineCalls # {}) => Booted

\* C15, amended: init_exslt runs the version check, the parser
\* initialization, the transform initialization and the extension
\* registration, in that order; once it has returned the engine stays
\* bootstrapped, so every make_style, apply_style or xslt call made after
\* it reaches a bootstrapped engine.  (A call made before it is not held
\* back.)
C15_BootstrapCompleteOnceCalled ==
  /\ last.op = "init_exslt"
        => /\ boot.called
           /\ [i \in DOMAIN trace |-> trace[i].op]
                 = <<"LIBXML_TEST_VERSION", "xmlInitParser", "xsltInit",
                     "exsltRegisterAll">>
  /\ boot.called => Booted

C15_Witness ==
  /\ boot.called
  /\ last.op \in {"make_style", "apply_style", "xslt"}
  /\ EngineCalls # {}

\* The bytes the engine serialized during the latest call, and their number.
Serialized == {heap[x].bytes : x \in CreatedOf("xmlbuf")}

\* C16: when apply_style succeeds with a positive output length L, the
\* buffer handed to the caller holds exactly L bytes, the same as the bytes
\* the engine serialized, zero bytes included.
C16_OutputIsSerializedBytes ==
  (last.op = "apply_style" /\ last.ret = 0
     /\ \E i \in At("serialized") : trace[i].b > 0)
     => /\ last.txt \in CreatedOf("cbuf")
        /\ \A i \in At("serialized") : Len(heap[last.txt].bytes) = trace[i].b
        /\ Serialized = {heap[last.txt].bytes}

\* C17: when apply_style succeeds, the length in the caller's variable is
\* the serialized output length, and so is the size of the buffer that was
\* allocated and filled, whatever the variable held before the call.
C17_ReportedLengthIsSerializedLength ==
  (last.op = "apply_style" /\ last.ret = 0)
     => \A i \in At("serialized") :
          /\ last.len = SizeT(0, 0, trace[i].b)
          /\ \A c \in CreatedOf("cbuf") : heap[c].size = SizeT(0, 0, trace[i].b)

\* C18: when apply_style returns, every text buffer the serializer
\* allocated during the call has been released exactly once, and the buffer
\* handed to the caller is another allocation, which apply_style has not
\* freed.
C18_SerializerBufferReleased ==
  last.op = "apply_style"
     => /\ \A x \in CreatedOf("xmlbuf") : heap[x].frees = 1
        /\ \A c \in CreatedOf("cbuf") : heap[c].frees = 0 /\ last.txt = c

====
